---- MODULE Spec2Model ----
(***************************************************************************)
(* Event detectors (ModulesPath/lfpEvent.py: Hswa, Ripple, Spindle) and    *)
(* Bayesian decoders (ModulesPath/decoders.py: Bayes, Bayes1d, bayes2d).   *)
(*                                                                         *)
(* Units.  z-scores are integers in half z-units (1.5 z is 3).  Times are  *)
(* integers in milliseconds (0.05 s is 50); sample indices are 0-based as  *)
(* in the source, so a signal is a function on 0..N-1.  Products with the  *)
(* sampling rate are compared by cross-multiplication, so a merge distance *)
(* or a duration that is no whole number of samples is compared exactly.   *)
(* The band-pass filter, the Hilbert envelope and the z-score are library  *)
(* code: their result, the z-scored envelope, is the input drawn in Init.  *)
(***************************************************************************)
EXTENDS Integers, Sequences, FiniteSets, TLC

VARIABLES
    eeg,          \* the z-scored envelope handed to the detector (maxPower over channels)
    called,       \* which detect ran: "none", "Ripple", "Spindle", "Hswa"
    status,       \* "idle", "ok" (detect returned) or "raised" (detect raised)
    stage,        \* the pass at which detect raised, "done" when it returned
    args,         \* the arguments and external inputs of the call
    noisy,        \* the sample indices zeroed as artifact / noisy
    zscsignal,    \* the signal after the noisy samples were zeroed
    firstPass,    \* <<start, stop>> sample pairs after pass 1
    secondPass,   \* after merging
    thirdPass,    \* after the peak filter
    events,       \* the event table saved by detect (times in ms)
    params,       \* the DetectionParams record saved with the events
    runs,         \* how many more times this behaviour calls detect
    goodchangrp,  \* the good channels of every shank, in the order they are listed
    rippleamp_chan, \* the mean ripple-band envelope of every good channel
    bestripplechans, \* what Ripple.channels saved: [isSet, channels, metricAmp]
    pf_ratemaps,  \* the rate maps held by the place-field object: cell x position, Hz
    spikes,       \* the spike times of every cell (ticks)
    b_events,     \* the decoder's _events: [isNone, rows of <<start, end>>]
    b_called,     \* the decoder operation that ran last
    b_status,     \* "idle", "ok" or "raised"
    spkcount,     \* self.spkcount: per event, cell x time bin
    nbins_events, \* self.nbins_events
    posterior,    \* self.posterior: per event, position x time bin
    decodedPos,   \* self.decodedPos: per event, one position per time bin
    score,        \* self.score: one score per event
    smoothed,     \* per event, the matrix that score_event sampled its lines from
                  \* when decode_events scored the events
    spk_cells,    \* the cell (row of the rate maps) that every row of self.spkcount counts
    dec,          \* the last call of _decoder: [spkcount, ratemaps, posterior]
    budget,       \* how many more decoder operations this behaviour calls
    shuffle_score, \* self.shuffle_score: [isSet, rows], one row of scores per iteration
    assigned,     \* the value last assigned to .events: [type, columns, data]
    shuf,         \* the last decode_shuffle: its arguments and its local arrays
    p_val,        \* what p_val_events returned
    post_form     \* what self.posterior is: "None", a "list" of arrays or one "array"

cvars == <<goodchangrp, rippleamp_chan, bestripplechans>>

dvars == <<eeg, called, status, stage, args, noisy, zscsignal,
           firstPass, secondPass, thirdPass, events, params, runs, cvars>>

bvars == <<pf_ratemaps, spikes, b_events, b_called, b_status,
           spkcount, nbins_events, posterior, decodedPos, score, smoothed, spk_cells, dec>>

shvars == <<shuffle_score, shuf, p_val>>

vars == <<dvars, bvars, budget, shvars, post_form, assigned>>

\* ---------------------------------------------------------------- bounds
\* length of the signals drawn over all four amplitude levels
SigLen == 5
\* length of the two-level (block) signals
BlockLen == 9
\* the spikes fall on the ticks 0 .. SpikeHorizon-1
SpikeHorizon == 4
\* the number of decoder operations called one after the other
MaxCalls == 3
\* the number of times detect is called one after the other on one detector
MaxRuns == 2
\* the channels 1 .. NChans of the probe and its number of shanks
NChans == 3
nShanks == 2

\* ------------------------------------------------------- input domains
\* lfp sampling rate in Hz: one sample is 100 ms
lfpSrate == 10
\* amplitude levels in half z-units: 0, 2.0 z, 4.0 z, 6.0 z
ZLevels == {0, 4, 8, 12}
BlockLevels == {0, 12}
Signals == [0..(SigLen - 1) -> ZLevels] \cup [0..(BlockLen - 1) -> BlockLevels]
\* the two-level signals that begin and end low and rise at most twice
RerunSignals ==
    {s \in [0..(BlockLen - 1) -> BlockLevels] :
        /\ s[0] = 0
        /\ s[BlockLen - 1] = 0
        /\ Cardinality({i \in 1..(BlockLen - 1) : s[i - 1] < s[i]}) <= 2}

\* Ripple.detect arguments (thresholds in half z-units, times in ms)
LowThresholds == {2, -2}
HighThresholds == {8}
MinDurations == {100, 300}
MaxDurations == {200, 600}
MergeDistances == {100, 150, 250}
\* findartifact(...): .time is None (no artifact epochs) or .getframes() gives the
\* noisy sample indices
Artifacts == {[time |-> FALSE, frames |-> {}],
              [time |-> TRUE, frames |-> {1}],
              [time |-> TRUE, frames |-> {2, 3}]}

\* Hswa.detect default band, in tenths of a Hz: (0.5, 4)
Hswa_freq_band == <<5, 40>>

\* Ripple.detect defaults for the band (Hz)
Ripple_lowFreq == 150
Ripple_highFreq == 240

\* Spindle class attributes (thresholds in half z-units, times in ms)
lowthresholdFactor == 3
highthresholdFactor == 8
minSpindleDuration == 350
Spindle_mergeDistance == 125
\* the .dead file: absent, or rows of <<start, end>> in ms
DeadFiles == {[isfile |-> FALSE, epochs |-> <<>>],
              [isfile |-> TRUE, epochs |-> <<<<100, 250>>>>],
              [isfile |-> TRUE, epochs |-> <<<<200, 400>>>>]}
\* brainstates.states rows named "nrem": <<start, end>> in ms
NremStates == {<<>>, <<<<0, 700>>>>, <<<<200, 500>>>>}

\* mean envelope amplitudes of a channel
AmpLevels == {1, 2, 3}
\* a list of distinct channels
ChannelLists ==
    UNION {{f \in [1..n -> 1..NChans] : \A a, b \in 1..n : f[a] = f[b] => a = b} :
              n \in 0..NChans}
ChannelSet(list) == {list[k] : k \in 1..Len(list)}
\* self._obj.goodchangrp: per shank the list of its good channels, no channel on
\* two shanks
ShankLayouts ==
    {g \in [1..nShanks -> ChannelLists] :
        \A a, b \in 1..nShanks : a # b => ChannelSet(g[a]) \cap ChannelSet(g[b]) = {}}

\* ------------------------------------------------------ decoder inputs
\* Rates are whole Hz.  exp(-tau * 1 Hz) is taken as 1/2 (a bin of ln 2 seconds), so
\* that exp(-tau * rate) = 1 / 2^rate is exact; the factor tau^count of a term is
\* carried as an exponent, it is the same for every position of a time bin.
\* Times are whole ticks and the bin is binsize ticks wide.
binsize == 2
RateRows == {<<2, 0>>, <<0, 2>>, <<2, 1>>, <<1, 0>>}
RateMaps == [1..2 -> RateRows]
SpikeTrains == [1..2 -> SUBSET (0..(SpikeHorizon - 1))]
\* a session with fewer spike trains than rows of the rate maps, and rate maps
\* with fewer rows than the session has spike trains
FewerTrains == [1..1 -> SUBSET (0..(SpikeHorizon - 1))]
FewerMaps == [1..1 -> RateRows]
MoreTrains == {t \in SpikeTrains : Cardinality(t[1]) + Cardinality(t[2]) <= 1}
\* pf1d_obj.bin: the edges of the position bins (cm)
pf_bin == <<0, 4, 8>>
\* pf1d_obj.period: the maze period
pf_period == <<0, 5>>
\* event tables assigned to the decoder: rows of <<start, end>>
EventTables == {<< <<0, 3>>, <<3, 6>> >>, << <<0, 5>> >>, << <<0, 4>> >>, << <<0, 7>> >>,
                << <<0, 3>>, <<4, 7>> >>}
\* a pd.DataFrame with the columns start and end made of the rows of a table
FrameRows(table) == [i \in 1..Len(table) |-> [start |-> table[i][1], end |-> table[i][2]]]
\* what is assigned to .events: a DataFrame with start and end columns, a DataFrame
\* that lacks the end column, or an N x 2 array
FrameInputs ==
    {[type |-> "DataFrame", columns |-> {"start", "end"}, data |-> FrameRows(t)] :
        t \in EventTables}
BadFrameInputs ==
    {[type |-> "DataFrame", columns |-> {"start"},
      data |-> [i \in 1..Len(t) |-> [start |-> t[i][1]]]] : t \in {<< <<0, 5>> >>}}
ArrayInputs ==
    {[type |-> "ndarray", columns |-> {}, data |-> t] : t \in {<< <<0, 3>>, <<3, 6>> >>}}
\* pf2d.gridcenter: the x and the y of the centre of every flattened grid cell
gridcenter == << <<2, 6>>, <<1, 1>> >>
\* bayes2d.decode_events(binsize, slideby) in ticks
binsize2d == 2
slideby == 1
\* the line scores of _score_events are maxima over randomly drawn lines
ScoreLevels == {1, 2}
\* decode_shuffle(n_iter, kind)
NIters == {1, 2}
ShuffleKinds == {"cellid", "column"}
\* the sessions on which call sequences with shuffles are followed
ShuffleMaps == {m \in RateMaps : \/ m[1] = <<2, 1>> /\ m[2] \in {<<0, 2>>, <<1, 0>>}
                                 \/ m[1] = <<0, 2>> /\ m[2] = <<2, 1>>}
ShuffleTrains == {t \in SpikeTrains : Cardinality(t[1]) + Cardinality(t[2]) <= 1}

\* --------------------------------------------------------------- helpers
NSamples(sig) == Cardinality(DOMAIN sig)

RECURSIVE SortedSeq(_)
SortedSeq(S) ==
    IF S = {} THEN <<>>
    ELSE LET m == CHOOSE x \in S : \A y \in S : x <= y
         IN <<m>> \o SortedSeq(S \ {m})

\* zscsignal[:, noisy_frames] = 0
ZeroNoisy(sig, frames) == [i \in DOMAIN sig |-> IF i \in frames THEN 0 ELSE sig[i]]

\* np.where(zscsignal > lowthreshold, 1, 0)
Binarize(sig, low) == [i \in DOMAIN sig |-> IF sig[i] > low THEN 1 ELSE 0]

\* np.diff
Diff(b) == [i \in 0..(NSamples(b) - 2) |-> b[i + 1] - b[i]]

\* np.where(d == v)[0]
WhereEq(d, v) == SortedSeq({i \in DOMAIN d : d[i] = v})

\* variant: the falling edge of a run that began before the first sample is kept
TrimIncomplete_keepLeading(start, stop) ==
    IF start = <<>> \/ stop = <<>> THEN [raised |-> TRUE, firstPass |-> <<>>]
    ELSE LET start1 == IF start[Len(start)] > stop[Len(stop)]
                       THEN SubSeq(start, 1, Len(start) - 1)
                       ELSE start
         IN IF Len(start1) # Len(stop)
            THEN [raised |-> TRUE, firstPass |-> <<>>]
            ELSE [raised |-> FALSE,
                  firstPass |-> [k \in 1..Len(start1) |-> <<start1[k], stop[k]>>]]

\* "getting rid of incomplete ripples at begining or end", then np.vstack(...).T
\* start[0] and stop[-1] raise IndexError on an empty array, vstack raises on a
\* length mismatch.
TrimIncomplete(start, stop) ==
    IF start = <<>> \/ stop = <<>> THEN [raised |-> TRUE, firstPass |-> <<>>]
    ELSE LET stop1 == IF start[1] > stop[1] THEN Tail(stop) ELSE stop
         IN IF stop1 = <<>> THEN [raised |-> TRUE, firstPass |-> <<>>]
            ELSE LET start1 == IF start[Len(start)] > stop1[Len(stop1)]
                               THEN SubSeq(start, 1, Len(start) - 1)
                               ELSE start
                 IN IF Len(start1) # Len(stop1)
                    THEN [raised |-> TRUE, firstPass |-> <<>>]
                    ELSE [raised |-> FALSE,
                          firstPass |-> [k \in 1..Len(start1) |-> <<start1[k], stop1[k]>>]]

\* variant: the distance is taken from the start of the current run
CloseToRipple_fromStart(run, ripple, mergeDistance) ==
    (run[1] - ripple[1]) * 1000 < mergeDistance * lfpSrate

\* firstPass[i, 0] - ripple[1] < minInterRippleSamples, with
\* minInterRippleSamples = mergeDistance * SampFreq (mergeDistance in ms here)
CloseToRipple(run, ripple, mergeDistance) ==
    (run[1] - ripple[2]) * 1000 < mergeDistance * lfpSrate

\* variant: the run is also appended when the next one is merged into it
RECURSIVE MergeLoop_dup(_, _, _, _, _)
MergeLoop_dup(first, i, ripple, second, mergeDistance) ==
    IF i > Len(first) THEN Append(second, ripple)
    ELSE IF CloseToRipple(first[i], ripple, mergeDistance)
         THEN MergeLoop_dup(first, i + 1, <<ripple[1], first[i][2]>>,
                            Append(second, ripple), mergeDistance)
         ELSE MergeLoop_dup(first, i + 1, first[i], Append(second, ripple), mergeDistance)

\* variant: a merge keeps the end of the current run
RECURSIVE MergeLoop_keepEnd(_, _, _, _, _)
MergeLoop_keepEnd(first, i, ripple, second, mergeDistance) ==
    IF i > Len(first) THEN Append(second, ripple)
    ELSE IF CloseToRipple(first[i], ripple, mergeDistance)
         THEN MergeLoop_keepEnd(first, i + 1, <<ripple[1], ripple[2]>>, second, mergeDistance)
         ELSE MergeLoop_keepEnd(first, i + 1, first[i], Append(second, ripple), mergeDistance)

\* the merge loop, from index i with the current merged run `ripple`
RECURSIVE MergeLoop(_, _, _, _, _)
MergeLoop(first, i, ripple, second, mergeDistance) ==
    IF i > Len(first) THEN Append(second, ripple)
    ELSE IF CloseToRipple(first[i], ripple, mergeDistance)
         THEN MergeLoop(first, i + 1, <<ripple[1], first[i][2]>>, second, mergeDistance)
         ELSE MergeLoop(first, i + 1, first[i], Append(second, ripple), mergeDistance)

\* variant: the run that is current when the loop ends is not appended
MergeClose_dropLast(first, mergeDistance) ==
    LET second == MergeLoop(first, 2, first[1], <<>>, mergeDistance)
    IN SubSeq(second, 1, Len(second) - 1)

MergeClose(first, mergeDistance) == MergeLoop(first, 2, first[1], <<>>, mergeDistance)

\* max(maxPower[a:b]): the slice holds the samples a .. b-1
SliceMax(sig, a, b) ==
    LET S == {sig[k] : k \in a..(b - 1)}
    IN CHOOSE m \in S : \A v \in S : v <= m

\* a + np.argmax(maxPower[a:b]): the first index of the maximum
SliceArgMax(sig, a, b) ==
    LET m == SliceMax(sig, a, b)
        I == {k \in a..(b - 1) : sig[k] = m}
    IN CHOOSE k \in I : \A j \in I : k <= j

\* Ripple: maxValue > highthreshold
RippleStrong(maxValue, high) == maxValue > high

\* Spindle: maxValue >= self.highthresholdFactor
SpindleStrong(maxValue) == maxValue >= highthresholdFactor

\* the peak test of the detector that runs
Strong(detector, maxValue, high) ==
    IF detector = "Ripple" THEN RippleStrong(maxValue, high) ELSE SpindleStrong(maxValue)

\* Ripple: ripples.duration >= minDuration, duration = diff / SampFreq
RippleLongEnough(run, minDuration) == (run[2] - run[1]) * 1000 >= minDuration * lfpSrate

\* Ripple: ripples.duration <= maxDuration
RippleShortEnough(run, maxDuration) == (run[2] - run[1]) * 1000 <= maxDuration * lfpSrate

\* sample index to time: x / SampFreq, in ms
ToTime(x) == (x * 1000) \div lfpSrate

\* one row of the ripples DataFrame, after the division by SampFreq
RippleEvent(sig, run) ==
    [start |-> ToTime(run[1]),
     end |-> ToTime(run[2]),
     peakNormalizedPower |-> SliceMax(sig, run[1], run[2]),
     peaktime |-> ToTime(SliceArgMax(sig, run[1], run[2])),
     duration |-> ToTime(run[2] - run[1])]

\* The trace of one pipeline run up to the peak filter, shared by Ripple.detect
\* and Spindle.detect (the two bodies are copies that differ in the peak test).
Passes(detector, sig, frames, low, high, mergeDistance) ==
    LET zsc == ZeroNoisy(sig, frames)
        d == Diff(Binarize(zsc, low))
        trim == TrimIncomplete(WhereEq(d, 1), WhereEq(d, -1))
        second == MergeClose(trim.firstPass, mergeDistance)
        third == SelectSeq(second, LAMBDA r : Strong(detector, SliceMax(zsc, r[1], r[2]), high))
    IN IF trim.raised
       THEN [stage |-> "trim", zsc |-> zsc, first |-> <<>>, second |-> <<>>, third |-> <<>>]
       ELSE IF third = <<>>
       THEN [stage |-> "peak", zsc |-> zsc, first |-> trim.firstPass,
             second |-> second, third |-> <<>>]
       ELSE [stage |-> "done", zsc |-> zsc, first |-> trim.firstPass,
             second |-> second, third |-> third]

\* ------------------------------------------------------- Spindle helpers
\* (x * sampleRate).astype(int) of a time in ms: truncation to a sample index
ToFrame(t) == (t * lfpSrate) \div 1000

\* the frames st .. en-1 of every row of an epoch list given in ms
EpochFrames(epochs) ==
    UNION {ToFrame(epochs[k][1])..(ToFrame(epochs[k][2]) - 1) : k \in 1..Len(epochs)}

\* Spindle: spindle_duration < self.minSpindleDuration, duration = diff / sampleRate * 1000
SpindleShort(run) == (run[2] - run[1]) * 1000 < minSpindleDuration * lfpSrate

\* Spindle: "start not in reqframes"
OutsideNrem(run, reqframes) == run[1] \notin reqframes

\* one emitted spindle: times = fifthPass / sampleRate, peakPower, peaktime / sampleRate
SpindleEvent(sig, run) ==
    [start |-> ToTime(run[1]),
     end |-> ToTime(run[2]),
     peakPower |-> SliceMax(sig, run[1], run[2]),
     peaktime |-> ToTime(SliceArgMax(sig, run[1], run[2]))]

\* ---------------------------------------------------------- Hswa helpers
\* scipy.signal.find_peaks(x)[0]: a sample (or the middle, rounded down, of a flat
\* run) that is higher than both neighbours; the first and last sample are never peaks
find_peaks(x) ==
    LET n == NSamples(x)
        Plateau(l, r) == /\ \A k \in l..r : x[k] = x[l]
                         /\ x[l - 1] < x[l]
                         /\ x[r + 1] < x[l]
    IN SortedSeq({m \in 1..(n - 2) : \E l \in 1..m, r \in m..(n - 2) :
                                        /\ Plateau(l, r)
                                        /\ m = (l + r) \div 2})

Negated(x) == [i \in DOMAIN x |-> 0 - x[i]]

\* t = np.linspace(0, len / lfpsRate, len): t[i] = i * len / (lfpsRate * (len - 1)) s.
\* Kept as the numerator i * len * 1000, i.e. in ms times lfpsRate * (len - 1).
Linspace(i, n) == i * n * 1000

\* variant: a peak before the first trough is kept
HswaPairs_keepLeadingPeak(delta) ==
    LET up0 == find_peaks(delta)
        down == find_peaks(Negated(delta))
    IN IF up0 = <<>> \/ down = <<>> THEN [raised |-> TRUE, rows |-> <<>>]
       ELSE LET up == IF up0[Len(up0)] > down[Len(down)]
                      THEN SubSeq(up0, 1, Len(up0) - 1)
                      ELSE up0
                n == NSamples(delta)
            IN IF Len(down) - 1 > Len(up) \/ Len(down) < 2
               THEN [raised |-> TRUE, rows |-> <<>>]
               ELSE [raised |-> FALSE,
                     rows |-> [i \in 1..(Len(down) - 1) |->
                                 [start |-> Linspace(down[i], n),
                                  end |-> Linspace(down[i + 1], n),
                                  peaktime |-> Linspace(up[i], n),
                                  peakamp |-> delta[up[i]],
                                  endamp |-> delta[down[i + 1]]]]]

\* The trimming of `up` and the pairing loop of Hswa.detect.  up[0], down[0], up[-1],
\* down[-1] and up[i] raise IndexError out of range; sigdelta[:, 3] raises when the
\* loop appended nothing.
HswaPairs(delta) ==
    LET up0 == find_peaks(delta)
        down == find_peaks(Negated(delta))
    IN IF up0 = <<>> \/ down = <<>> THEN [raised |-> TRUE, rows |-> <<>>]
       ELSE LET up1 == IF up0[1] < down[1] THEN Tail(up0) ELSE up0
            IN IF up1 = <<>> THEN [raised |-> TRUE, rows |-> <<>>]
               ELSE LET up == IF up1[Len(up1)] > down[Len(down)]
                              THEN SubSeq(up1, 1, Len(up1) - 1)
                              ELSE up1
                        n == NSamples(delta)
                    IN IF Len(down) - 1 > Len(up) \/ Len(down) < 2
                       THEN [raised |-> TRUE, rows |-> <<>>]
                       ELSE [raised |-> FALSE,
                             rows |-> [i \in 1..(Len(down) - 1) |->
                                         [start |-> Linspace(down[i], n),
                                          end |-> Linspace(down[i + 1], n),
                                          peaktime |-> Linspace(up[i], n),
                                          peakamp |-> delta[up[i]],
                                          endamp |-> delta[down[i + 1]]]]]

\* ------------------------------------------------------- exact numbers
\* a non-negative rational <<numerator, denominator>>; 0/0 is NaN
NaN == <<0, 0>>
IsNaN(a) == a[2] = 0

RECURSIVE GCD(_, _)
GCD(a, b) == IF b = 0 THEN a ELSE GCD(b, a % b)

\* lowest terms
Reduce(a) == LET g == GCD(a[1], a[2]) IN IF g = 0 THEN a ELSE <<a[1] \div g, a[2] \div g>>
RMul(a, b) == Reduce(<<a[1] * b[1], a[2] * b[2]>>)
RAdd(a, b) == Reduce(<<a[1] * b[2] + b[1] * a[2], a[2] * b[2]>>)
\* a / b as numpy divides: 0/0 is nan
RDiv(a, b) == IF b[1] = 0 THEN NaN ELSE Reduce(<<a[1] * b[2], a[2] * b[1]>>)
RLess(a, b) == a[1] * b[2] < b[1] * a[2]
REq(a, b) == a[1] * b[2] = b[1] * a[2]

RECURSIVE Pow(_, _)
Pow(x, n) == IF n = 0 THEN 1 ELSE x * Pow(x, n - 1)

\* scipy.special.factorial
RECURSIVE factorial(_)
factorial(n) == IF n = 0 THEN 1 ELSE n * factorial(n - 1)

RECURSIVE RSum(_)
RSum(q) == IF q = <<>> THEN <<0, 1>> ELSE RAdd(Head(q), RSum(Tail(q)))

RECURSIVE RProd(_)
RProd(q) == IF q = <<>> THEN <<1, 1>> ELSE RMul(Head(q), RProd(Tail(q)))

\* ------------------------------------------------------- decoder helpers
\* np.arange(start, end, step)
arange(start, end, step) ==
    LET n == IF end > start THEN (end - start + step - 1) \div step ELSE 0
    IN [k \in 1..n |-> start + (k - 1) * step]

\* np.histogram(x, bins=edges)[0]: half-open bins, the last one closed
histogram(x, edges) ==
    [j \in 1..(Len(edges) - 1) |->
        Cardinality({t \in x : /\ edges[j] <= t
                               /\ IF j = Len(edges) - 1 THEN t <= edges[j + 1]
                                                         ELSE t < edges[j + 1]})]

Monotonic(edges) == \A j \in 1..(Len(edges) - 1) : edges[j] <= edges[j + 1]

RECURSIVE Concat(_)
Concat(qq) == IF qq = <<>> THEN <<>> ELSE Head(qq) \o Concat(Tail(qq))

RECURSIVE cumsum(_)
cumsum(q) ==
    IF q = <<>> THEN <<>>
    ELSE LET c == cumsum(SubSeq(q, 1, Len(q) - 1))
         IN Append(c, (IF c = <<>> THEN 0 ELSE c[Len(c)]) + q[Len(q)])

\* the entries of q whose 0-based column index is not in cols
DeleteColumns(q, cols) ==
    LET keep == SortedSeq({j \in 1..Len(q) : (j - 1) \notin cols})
    IN [k \in 1..Len(keep) |-> q[keep[k]]]

\* (tau * rate) ** count / count! * exp(-tau * rate), without the factor tau^count
CellProb(rate, count) == <<Pow(rate, count), factorial(count) * Pow(2, rate)>>

\* every entry over the sum of its row (np.sum along axis 1)
Normalize_axis1(like) ==
    [p \in 1..Len(like) |->
        [t \in 1..Len(like[p]) |-> RDiv(like[p][t], RSum(like[p]))]]

\* posterior /= np.sum(posterior, axis=0): every entry over the sum of its column
Normalize(like) ==
    [p \in 1..Len(like) |->
        [t \in 1..Len(like[p]) |->
            RDiv(like[p][t], RSum([q \in 1..Len(like) |-> like[q][t]]))]]

\* Bayes1d._decoder and Bayes._decoder: counts are cell x time bin, maps are
\* cell x position; the loop reads the rows 0 .. nCells-1 of the maps, where
\* nCells is the number of rows of the counts (IndexError when the maps are fewer)
Decoder(counts, maps) ==
    LET nCells == Len(counts)
        nPos == Len(maps[1])
        nT == IF counts = <<>> THEN 0 ELSE Len(counts[1])
        like == [p \in 1..nPos |->
                    [t \in 1..nT |->
                        RProd([c \in 1..nCells |-> CellProb(maps[c][p], counts[c][t])])]]
    IN Normalize(like)

\* ratemaps[cell, :] for cell in range(spkcount.shape[0]): IndexError when the
\* counts have more rows than the maps; with fewer rows nothing is raised
IndexError_decoder(counts, maps) == Len(counts) > Len(maps)

\* np.argmax over a column: the first index of the maximum, 0-based; nan counts as
\* the maximum, so a column of nan gives 0
ArgMaxColumn(post, t) ==
    IF \E p \in 1..Len(post) : IsNaN(post[p][t])
    THEN (CHOOSE p \in 1..Len(post) :
            /\ IsNaN(post[p][t])
            /\ \A q \in 1..(p - 1) : ~IsNaN(post[q][t])) - 1
    ELSE (CHOOSE p \in 1..Len(post) :
            /\ \A q \in 1..Len(post) : ~RLess(post[p][t], post[q][t])
            /\ \A q \in 1..(p - 1) : RLess(post[q][t], post[p][t])) - 1

\* bincntr = bin + np.diff(bin).mean() / 2, at the 0-based index p
bincntr(p) == pf_bin[p + 1] + ((pf_bin[Len(pf_bin)] - pf_bin[1]) \div (Len(pf_bin) - 1)) \div 2

\* bincntr[np.argmax(posterior, axis=0)]
DecodedPositions(post) ==
    [t \in 1..(IF post = <<>> THEN 0 ELSE Len(post[1])) |-> bincntr(ArgMaxColumn(post, t))]

\* the number of columns of a matrix given as rows
NColumns(mat) == IF mat = <<>> THEN 0 ELSE Len(mat[1])

\* the columns a .. b-1 (0-based) of a matrix given as rows
Columns(mat, a, b) == [r \in 1..Len(mat) |-> SubSeq(mat[r], a + 1, b)]

\* "removing cells that fire < 1 HZ": np.where(np.max(ratemaps, axis=1) > 1)[0]
RowMax(row) == CHOOSE m \in {row[k] : k \in 1..Len(row)} : \A k \in 1..Len(row) : row[k] <= m
good_cells(maps) == SortedSeq({c \in 1..Len(maps) : RowMax(maps[c]) > 1})

\* np.argmax(row): the first position of the maximum
RowArgMax(row) == CHOOSE p \in 1..Len(row) :
                     /\ row[p] = RowMax(row)
                     /\ \A q \in 1..(p - 1) : row[q] < row[p]

\* np.argsort(np.argmax(ratemaps, axis=1)): the rows in ascending order of their
\* peak position, rows with the same peak in their given order
RECURSIVE SortByPeak(_, _)
SortByPeak(maps, left) ==
    IF left = {} THEN <<>>
    ELSE LET c == CHOOSE x \in left :
                    \A y \in left : \/ RowArgMax(maps[x]) < RowArgMax(maps[y])
                                    \/ (RowArgMax(maps[x]) = RowArgMax(maps[y]) /\ x <= y)
         IN <<c>> \o SortByPeak(maps, left \ {c})
sort_ind(maps) == SortByPeak(maps, 1..Len(maps))

Pick(q, idx) == [k \in 1..Len(idx) |-> q[idx[k]]]

\* np.random.shuffle(ratemaps): the orders of the rows that can come out
RowOrders(n) == {f \in [1..n -> 1..n] : \A a, b \in 1..n : f[a] = f[b] => a = b}

\* np.convolve(col, np.ones(3)) in its default mode "full": Len(col) + 2 values,
\* value k (0-based) being the sum of col[k-2], col[k-1] and col[k] where they exist
convolve_ones3(col) ==
    [k \in 1..(Len(col) + 2) |->
        RSum([j \in 1..Len(col) |-> IF j \in (k - 2)..k THEN col[j] ELSE <<0, 1>>])]

\* np.apply_along_axis(np.convolve, axis=0, arr=evt, v=np.ones(3)): every column
\* (time bin) of the event convolved along the positions
smooth(evt) ==
    [k \in 1..(Len(evt) + 2) |->
        [t \in 1..NColumns(evt) |->
            convolve_ones3([p \in 1..Len(evt) |-> evt[p][t]])[k]]]

\* ------------------------------------------------------------------ Init
\* a decoder on which nothing was assigned or decoded (Bayes1d.__init__)
BayesIdle ==
    /\ b_events = [isNone |-> TRUE, rows |-> <<>>]
    /\ b_called = "none"
    /\ b_status = "idle"
    /\ spkcount = <<>>
    /\ nbins_events = <<>>
    /\ posterior = <<>>
    /\ decodedPos = <<>>
    /\ score = <<>>
    /\ smoothed = <<>>
    /\ spk_cells = <<>>
    /\ dec = <<>>
    /\ shuffle_score = [isSet |-> FALSE, rows |-> <<>>]
    /\ shuf = <<>>
    /\ p_val = <<>>
    /\ post_form = "None"
    /\ assigned = <<>>

\* a session whose best ripple channels were never computed
ChannelsIdle ==
    /\ goodchangrp = <<>>
    /\ rippleamp_chan = <<>>
    /\ bestripplechans = [isSet |-> FALSE, channels |-> <<>>, metricAmp |-> <<>>]

\* variant: the new rows are added to the table that the file held
Saved_appended(table) == events \o table

\* np.save(file, {"events": table, ...}) followed by _load: the file is
\* overwritten, and the table read back is the one just computed
Saved(table) == table

Init ==
    /\ eeg \in Signals
    /\ called = "none"
    /\ status = "idle"
    /\ stage = "idle"
    /\ args = <<>>
    /\ noisy = {}
    /\ zscsignal = eeg
    /\ firstPass = <<>>
    /\ secondPass = <<>>
    /\ thirdPass = <<>>
    /\ events = <<>>
    /\ params = <<>>
    /\ runs = 1
    /\ ChannelsIdle
    /\ BayesIdle
    /\ pf_ratemaps = <<>>
    /\ spikes = <<>>
    /\ budget = 0

\* --------------------------------------------------------- Ripple.detect
Ripple_detect ==
    /\ runs > 0
    /\ called \in {"none", "Ripple"}
    /\ runs' = runs - 1
    /\ \E low \in LowThresholds, high \in HighThresholds, minD \in MinDurations,
          maxD \in MaxDurations, mergeD \in MergeDistances, artifact \in Artifacts :
        LET frames == IF artifact.time THEN artifact.frames ELSE {}
            p == Passes("Ripple", eeg, frames, low, high, mergeD)
            kept == SelectSeq(p.third, LAMBDA r : /\ RippleLongEnough(r, minD)
                                                  /\ RippleShortEnough(r, maxD))
        IN /\ called' = "Ripple"
           /\ args' = [lowFreq |-> Ripple_lowFreq, highFreq |-> Ripple_highFreq,
                       lowthreshold |-> low, highthreshold |-> high, minDuration |-> minD,
                       maxDuration |-> maxD, mergeDistance |-> mergeD, artifact |-> artifact]
           /\ noisy' = frames
           /\ zscsignal' = p.zsc
           /\ firstPass' = p.first
           /\ secondPass' = p.second
           /\ thirdPass' = p.third
           /\ stage' = p.stage
           /\ IF p.stage = "done"
              THEN /\ status' = "ok"
                   /\ events' = Saved([k \in 1..Len(kept) |-> RippleEvent(p.zsc, kept[k])])
                   /\ params' = [lowThres |-> low, highThresh |-> high,
                                 lowFreq |-> Ripple_lowFreq, highFreq |-> Ripple_highFreq,
                                 minDuration |-> minD, maxDuration |-> maxD,
                                 mergeDistance |-> mergeD]
              ELSE /\ status' = "raised"
                   /\ UNCHANGED <<events, params>>
    /\ UNCHANGED <<eeg, cvars, bvars, budget, shvars, post_form, assigned>>

\* -------------------------------------------------------- Spindle.detect
Spindle_detect ==
    /\ runs > 0
    /\ called \in {"none", "Spindle"}
    /\ runs' = runs - 1
    /\ \E dead \in DeadFiles, nrem \in NremStates :
        LET frames == IF dead.isfile THEN EpochFrames(dead.epochs) ELSE {}
            p == Passes("Spindle", eeg, frames, lowthresholdFactor, highthresholdFactor,
                        Spindle_mergeDistance)
            fourthPass == SelectSeq(p.third, LAMBDA r : ~SpindleShort(r))
            reqframes == EpochFrames(nrem)
            fifthPass == SelectSeq(fourthPass, LAMBDA r : ~OutsideNrem(r, reqframes))
        IN /\ called' = "Spindle"
           /\ args' = [lowFreq |-> 8, highFreq |-> 16, deadfile |-> dead, nrem |-> nrem]
           /\ noisy' = frames
           /\ zscsignal' = p.zsc
           /\ firstPass' = p.first
           /\ secondPass' = p.second
           /\ thirdPass' = p.third
           /\ stage' = p.stage
           /\ IF p.stage = "done"
              THEN /\ status' = "ok"
                   /\ events' = Saved([k \in 1..Len(fifthPass) |->
                                            SpindleEvent(p.zsc, fifthPass[k])])
                   /\ params' = [lowThres |-> lowthresholdFactor,
                                 highThresh |-> highthresholdFactor,
                                 lowFreq |-> 9, highFreq |-> 18,
                                 minDuration |-> minSpindleDuration]
              ELSE /\ status' = "raised"
                   /\ UNCHANGED <<events, params>>
    /\ UNCHANGED <<eeg, cvars, bvars, budget, shvars, post_form, assigned>>

\* ----------------------------------------------------------- Hswa.detect
\* eeg is here the filtered, z-scored and sign-flipped delta signal
Hswa_detect ==
    /\ runs > 0
    /\ called \in {"none", "Hswa"}
    /\ runs' = runs - 1
    /\ LET h == HswaPairs(eeg)
       IN /\ called' = "Hswa"
          /\ args' = [freq_band |-> Hswa_freq_band, chan |-> 0]
          /\ IF h.raised
             THEN /\ status' = "raised"
                  /\ stage' = "pairs"
                  /\ UNCHANGED <<events, params>>
             ELSE /\ status' = "ok"
                  /\ stage' = "done"
                  /\ events' = Saved(h.rows)
                  /\ params' = [freq_band |-> Hswa_freq_band, chan |-> 0]
    /\ UNCHANGED <<eeg, noisy, zscsignal, firstPass, secondPass, thirdPass, cvars, bvars,
                   budget, shvars, post_form, assigned>>

Next ==
    \/ Ripple_detect
    \/ Spindle_detect
    \/ Hswa_detect

Spec == Init /\ [][Next]_vars

\* detect called MaxRuns times on one detector of one session, the arguments, the
\* artifact epochs, the .dead file and the nrem rows chosen anew at every call
InitRerun ==
    /\ eeg \in RerunSignals
    /\ called = "none"
    /\ status = "idle"
    /\ stage = "idle"
    /\ args = <<>>
    /\ noisy = {}
    /\ zscsignal = eeg
    /\ firstPass = <<>>
    /\ secondPass = <<>>
    /\ thirdPass = <<>>
    /\ events = <<>>
    /\ params = <<>>
    /\ runs = MaxRuns
    /\ ChannelsIdle
    /\ BayesIdle
    /\ pf_ratemaps = <<>>
    /\ spikes = <<>>
    /\ budget = 0

SpecRerun == InitRerun /\ [][Next]_vars

\* -------------------------------------------------------- Ripple.channels
\* np.argmax(avgrpl_shank): the first channel of the shank with the largest mean
chan_max(shank, amp) ==
    shank[CHOOSE k \in 1..Len(shank) :
            /\ \A j \in 1..Len(shank) : amp[shank[j]] <= amp[shank[k]]
            /\ \A j \in 1..(k - 1) : amp[shank[j]] < amp[shank[k]]]

\* the loop over range(nShanks): the best channel of every non-empty shank, in the
\* order of the shanks
rplchan_shank(grp, amp) ==
    LET nonEmpty == SortedSeq({sh \in 1..Len(grp) : grp[sh] # <<>>})
    IN [k \in 1..Len(nonEmpty) |-> chan_max(grp[nonEmpty[k]], amp)]

\* np.argsort(metricAmp): an order that makes the values ascending; the order of
\* equal values is not specified by the default sort
argsort(vals) ==
    {f \in RowOrders(Len(vals)) : \A k \in 1..(Len(vals) - 1) : vals[f[k]] <= vals[f[k + 1]]}

\* the rankings Ripple.channels can save for a channel grouping and the amplitudes
Rankings(grp, amp) ==
    LET best == rplchan_shank(grp, amp)
        metric == [k \in 1..Len(best) |-> amp[best[k]]]
    IN {[isSet |-> TRUE, channels |-> Pick(best, sort_chan),
         metricAmp |-> Pick(metric, sort_chan)] : sort_chan \in argsort(metric)}

Ripple_channels ==
    /\ ~bestripplechans.isSet
    /\ bestripplechans' \in Rankings(goodchangrp, rippleamp_chan)
    /\ UNCHANGED <<eeg, called, status, stage, args, noisy, zscsignal, firstPass,
                   secondPass, thirdPass, events, params, runs, goodchangrp,
                   rippleamp_chan, bvars, budget, shvars, post_form, assigned>>

\* a session with its channel grouping and the mean envelope of every channel
InitChannels ==
    /\ eeg = [i \in 0..(SigLen - 1) |-> 0]
    /\ called = "none"
    /\ status = "idle"
    /\ stage = "idle"
    /\ args = <<>>
    /\ noisy = {}
    /\ zscsignal = eeg
    /\ firstPass = <<>>
    /\ secondPass = <<>>
    /\ thirdPass = <<>>
    /\ events = <<>>
    /\ params = <<>>
    /\ runs = 0
    /\ goodchangrp \in ShankLayouts
    /\ rippleamp_chan \in [1..NChans -> AmpLevels]
    /\ bestripplechans = [isSet |-> FALSE, channels |-> <<>>, metricAmp |-> <<>>]
    /\ BayesIdle
    /\ pf_ratemaps = <<>>
    /\ spikes = <<>>
    /\ budget = 0

NextChannels == Ripple_channels

SpecChannels == InitChannels /\ [][NextChannels]_vars

\* ---------------------------------------------------------- the decoders
\* a detector on which nothing was called
DetectIdle ==
    /\ eeg = [i \in 0..(SigLen - 1) |-> 0]
    /\ called = "none"
    /\ status = "idle"
    /\ stage = "idle"
    /\ args = <<>>
    /\ noisy = {}
    /\ zscsignal = eeg
    /\ firstPass = <<>>
    /\ secondPass = <<>>
    /\ thirdPass = <<>>
    /\ events = <<>>
    /\ params = <<>>
    /\ runs = 0
    /\ ChannelsIdle

\* the sessions decoded: the rate maps of the place-field object and the spike
\* trains of the session, of the same number of cells or not
Sessions ==
    [ratemaps : RateMaps, spikes : SpikeTrains]
      \cup [ratemaps : RateMaps, spikes : FewerTrains]
      \cup [ratemaps : FewerMaps, spikes : MoreTrains]

\* Bayes1d(pf1d_obj) / bayes2d(pf2d_obj) over a session with rate maps and spikes
InitDecode ==
    /\ DetectIdle
    /\ BayesIdle
    /\ \E s \in Sessions : pf_ratemaps = s.ratemaps /\ spikes = s.spikes
    /\ budget = 1

\* the next decoder operation may be called
CanCall == budget > 0 /\ b_status # "raised"

\* pd.DataFrame({"start": events[:, 0], "end": events[:, 1]})
FromArray(a) == [i \in 1..Len(a) |-> [start |-> a[i][1], end |-> a[i][2]]]

\* the variant of the column check that lets every table through
HasStartEnd_any(columns) == TRUE

\* pd.Series(["start", "end"]).isin(events.columns).all()
HasStartEnd(columns) == {"start", "end"} \subseteq columns

\* the body of the events setter for the value v
Assign(v) ==
    /\ assigned' = v
    /\ IF v.type = "DataFrame" /\ ~HasStartEnd(v.columns)
       THEN /\ b_called' = "events"
            /\ b_status' = "raised"
            /\ UNCHANGED b_events
       ELSE /\ b_events' = [isNone |-> FALSE,
                            rows |-> IF v.type = "ndarray" THEN FromArray(v.data)
                                                         ELSE v.data]
            /\ UNCHANGED <<b_called, b_status>>

\* the events setter of Bayes and Bayes1d
set_events ==
    /\ b_called = "none"
    /\ \/ \E v \in FrameInputs : Assign(v)
       \/ \E v \in BadFrameInputs : Assign(v)
       \/ \E v \in ArrayInputs : Assign(v)
    /\ UNCHANGED <<dvars, pf_ratemaps, spikes, spkcount, nbins_events,
                   posterior, decodedPos, score, smoothed, spk_cells, dec, budget, shvars, post_form>>

\* the bin edges of all events one after the other, and the bins per event
bins_events(rows) ==
    Concat([i \in 1..Len(rows) |-> arange(rows[i].start, rows[i].end, binsize)])
nbins_of(rows) ==
    [i \in 1..Len(rows) |-> Len(arange(rows[i].start, rows[i].end, binsize)) - 1]

\* np.append(0, np.cumsum(nbins_events))
cum_nbins(nbins) == <<0>> \o cumsum(nbins)

\* variant: no column is deleted
del_columns_none(nbins) == {}

\* cumsum_nbins[:-1] + np.arange(len(cumsum_nbins) - 1)
del_columns(nbins) ==
    {cumsum(nbins)[i] + (i - 1) : i \in 1..(Len(nbins) - 1)}

\* Bayes1d.decode_events up to the call of _decoder: [raised, spkcount, ratemaps]
EventCounts(rows, maps, spks) ==
    LET good == good_cells(maps)
        missing == \E k \in 1..Len(good) : good[k] > Len(spks)
        gmaps == Pick(maps, good)
        gspks == IF missing THEN <<>> ELSE Pick(spks, good)
        order == sort_ind(gmaps)
        smaps == Pick(gmaps, order)
        sspks == IF missing THEN <<>> ELSE Pick(gspks, order)
        edges == bins_events(rows)
        counts == [c \in 1..Len(sspks) |->
                      DeleteColumns(histogram(sspks[c], edges), del_columns(nbins_of(rows)))]
    IN [raised |-> missing \/ (sspks = <<>>) \/ ~Monotonic(edges) \/ Len(edges) < 2,
        spkcount |-> counts,
        ratemaps |-> smaps,
        cells |-> Pick(good, order)]

Bayes1d_decode_events ==
    /\ CanCall
    /\ budget' = budget - 1
    /\ b_called' = "decode_events"
    /\ IF b_events.isNone
       THEN /\ b_status' = "raised"
            /\ UNCHANGED <<spkcount, nbins_events, posterior, decodedPos, score, smoothed,
                            spk_cells,
                            dec,
                            post_form>>
       ELSE \E ec \in {EventCounts(b_events.rows, pf_ratemaps, spikes)} :
            IF ec.raised
            THEN /\ b_status' = "raised"
                 /\ UNCHANGED <<spkcount, nbins_events, posterior, decodedPos, score, smoothed,
                            spk_cells,
                            dec,
                            post_form>>
            ELSE \E post \in {Decoder(ec.spkcount, ec.ratemaps)} :
                 \E pos \in {DecodedPositions(post)} :
                 \E nbins \in {nbins_of(b_events.rows)} :
                 \E cum \in {cum_nbins(nbins)} :
                    /\ b_status' = "ok"
                    /\ dec' = [spkcount |-> ec.spkcount, ratemaps |-> ec.ratemaps,
                               posterior |-> post]
                    /\ posterior' = [i \in 1..Len(nbins) |->
                                        Columns(post, cum[i], cum[i + 1])]
                    /\ decodedPos' = [i \in 1..Len(nbins) |->
                                        SubSeq(pos, cum[i] + 1, cum[i + 1])]
                    /\ spkcount' = [i \in 1..Len(nbins) |->
                                        Columns(ec.spkcount, cum[i], cum[i + 1])]
                    /\ nbins_events' = nbins
                    /\ post_form' = "list"
                    /\ smoothed' = [i \in 1..Len(nbins) |->
                                        smooth(Columns(post, cum[i], cum[i + 1]))]
                    /\ spk_cells' = ec.cells
                    /\ score' \in [1..Len(nbins) -> ScoreLevels]
    /\ UNCHANGED <<dvars, pf_ratemaps, spikes, b_events, shvars, assigned>>

\* Bayes1d.estimate_behavior: every cell, the bins of the maze period
Bayes1d_estimate_behavior ==
    /\ CanCall
    /\ budget' = budget - 1
    /\ b_called' = "estimate_behavior"
    /\ \E tmz \in {arange(pf_period[1], pf_period[2], binsize)} :
       \E counts \in {[c \in 1..Len(spikes) |-> histogram(spikes[c], tmz)]} :
       IF IndexError_decoder(counts, pf_ratemaps)
       THEN /\ b_status' = "raised"
            /\ UNCHANGED <<posterior, decodedPos, dec, post_form>>
       ELSE \E post \in {Decoder(counts, pf_ratemaps)} :
          /\ b_status' = "ok"
          /\ dec' = [spkcount |-> counts, ratemaps |-> pf_ratemaps, posterior |-> post]
          /\ posterior' = post
          /\ post_form' = "array"
          /\ decodedPos' = DecodedPositions(post)
    /\ UNCHANGED <<dvars, pf_ratemaps, spikes, b_events, spkcount, nbins_events, score,
                   smoothed, spk_cells,
                   shvars, assigned>>

\* Spikes(self._obj).get_cells(ids=self.pf2d.cell_ids): the trains of the cells
\* that have a rate map, in their order; no train is returned when the session
\* lacks one of the cells
get_cells(spks, nids) == IF nids > Len(spks) THEN <<>> ELSE SubSeq(spks, 1, nids)

\* np.lib.stride_tricks.sliding_window_view(row, w)[::s].sum(): the sums of the
\* windows of w columns that start at every s-th column
slide_view(row, w, s) ==
    LET n == IF Len(row) < w THEN 0 ELSE (Len(row) - w) \div s + 1
    IN [k \in 1..n |-> LET a == (k - 1) * s
                       IN RSum([j \in 1..w |-> <<row[a + j], 1>>])[1]]

\* bayes2d.decode_events up to the call of _decoder, event by event
SlidCounts(rows, spks) ==
    LET perEvent == [i \in 1..Len(rows) |->
                        LET bins == arange(rows[i].start, rows[i].end, 1)
                        IN [c \in 1..Len(spks) |->
                               slide_view(histogram(spks[c], bins), binsize2d, slideby)]]
    IN [raised |-> \/ spks = <<>>
                   \/ \E i \in 1..Len(rows) :
                         Len(arange(rows[i].start, rows[i].end, 1)) - 1 < binsize2d,
        nbins |-> IF spks = <<>> THEN <<>>
                  ELSE [i \in 1..Len(rows) |-> Len(perEvent[i][1])],
        spkcount |-> [c \in 1..Len(spks) |->
                         Concat([i \in 1..Len(rows) |-> perEvent[i][c]])]]

\* gridcenter[:, np.argmax(posterior, axis=0)]
DecodedGrid(post) ==
    [d \in 1..2 |->
        [t \in 1..(IF post = <<>> THEN 0 ELSE Len(post[1])) |->
            gridcenter[d][ArgMaxColumn(post, t) + 1]]]

bayes2d_decode_events ==
    /\ CanCall
    /\ budget' = budget - 1
    /\ b_called' = "decode_events2d"
    /\ IF b_events.isNone
       THEN /\ b_status' = "raised"
            /\ UNCHANGED <<posterior, decodedPos, dec, post_form>>
       ELSE \E sc \in {SlidCounts(b_events.rows, get_cells(spikes, Len(pf_ratemaps)))} :
            IF sc.raised
            THEN /\ b_status' = "raised"
                 /\ UNCHANGED <<posterior, decodedPos, dec, post_form>>
            ELSE \E post \in {Decoder(sc.spkcount, pf_ratemaps)} :
                 \E pos \in {DecodedGrid(post)} :
                 \E cum \in {cum_nbins(sc.nbins)} :
                    /\ b_status' = "ok"
                    /\ dec' = [spkcount |-> sc.spkcount, ratemaps |-> pf_ratemaps,
                               posterior |-> post]
                    /\ posterior' = [i \in 1..Len(sc.nbins) |->
                                        Columns(post, cum[i], cum[i + 1])]
                    /\ decodedPos' = [i \in 1..Len(sc.nbins) |->
                                        Columns(pos, cum[i], cum[i + 1])]
                    /\ post_form' = "list"
    /\ UNCHANGED <<dvars, pf_ratemaps, spikes, b_events, spkcount, nbins_events, score,
                   smoothed, spk_cells,
                   shvars, assigned>>

NextDecode ==
    \/ set_events
    \/ Bayes1d_decode_events
    \/ Bayes1d_estimate_behavior
    \/ bayes2d_decode_events

SpecDecode == InitDecode /\ [][NextDecode]_vars

\* --------------------------------------------------------- decode_shuffle
\* a view of the rows idx of an array (what basic slicing would give)
FancyIndex_view(maps, idx) == [shared |-> TRUE, rows |-> Pick(maps, idx)]

\* ratemaps[good_cells, :]: indexing with an index array gives a new array
FancyIndex(maps, idx) == [shared |-> FALSE, rows |-> Pick(maps, idx)]

\* decode_shuffle's own "removing cells that fire < 1 HZ"
shuffle_good_cells(maps) == good_cells(maps)

\* variant: the shuffle puts the cells in descending order of their peak position
shuffle_sort_ind_descending(maps) ==
    [k \in 1..Len(maps) |-> sort_ind(maps)[Len(maps) + 1 - k]]

\* decode_shuffle's own "sorting the cells according to pf location"
shuffle_sort_ind(maps) == sort_ind(maps)

\* np.roll(col, sh): the entry at j moves to j + sh, cyclically
roll(col, sh) == [j \in 1..Len(col) |-> col[((j - 1 - sh) % Len(col)) + 1]]

\* variant: the rows are rolled, which moves values from column to column
col_shuffle_alongRows(mat, shift) ==
    [p \in 1..Len(mat) |-> roll(mat[p], shift[1])]

\* col_shuffle(mat) for the drawn signed offsets: np.roll on every column, the
\* rolled columns stacked as rows and transposed back
col_shuffle(mat, shift) ==
    [p \in 1..Len(mat) |->
        [t \in 1..Len(mat[p]) |-> roll([q \in 1..Len(mat) |-> mat[q][t]], shift[t])[p]]]

\* np.random.randint(1, n, n) * np.random.choice([-1, 1], n): what can be drawn
Shifts(n) == [1..n -> {k \in (1 - n)..(n - 1) : k # 0}]

\* np.random.randint(1, n, n) raises ValueError (low >= high) when n = 1
col_shuffle_raises(mat) == NColumns(mat) = 1

\* np.hstack(self.spkcount)
hstack(mats) ==
    [c \in 1..Len(mats[1]) |-> Concat([i \in 1..Len(mats) |-> mats[i][c]])]

\* posterior_[:, cum_nbins[i] : cum_nbins[i + 1]] for every event
SplitColumns(post, nbins) ==
    [i \in 1..Len(nbins) |-> Columns(post, cum_nbins(nbins)[i], cum_nbins(nbins)[i + 1])]

ShuffleRaised ==
    /\ b_status' = "raised"
    /\ UNCHANGED <<shuffle_score, shuf, dec, pf_ratemaps>>

Bayes1d_decode_shuffle ==
    /\ CanCall
    /\ budget' = budget - 1
    /\ b_called' = "decode_shuffle"
    /\ \E n_iter \in NIters, kind \in ShuffleKinds :
          IF kind = "cellid"
          THEN IF \/ \E k \in 1..Len(shuffle_good_cells(pf_ratemaps)) :
                         shuffle_good_cells(pf_ratemaps)[k] > Len(spikes)
                     \/ spkcount = <<>>
               THEN ShuffleRaised
               ELSE \E good \in {FancyIndex(pf_ratemaps, shuffle_good_cells(pf_ratemaps))} :
                    \E sorted \in {FancyIndex(good.rows, shuffle_sort_ind(good.rows))} :
                    \E perm \in RowOrders(Len(sorted.rows)) :
                    \E ratemaps \in {Pick(sorted.rows, perm)} :
                    \E counts \in {hstack(spkcount)} :
                    \E post \in {Decoder(counts, ratemaps)} :
                       /\ b_status' = "ok"
                       /\ dec' = [spkcount |-> counts, ratemaps |-> ratemaps,
                                  posterior |-> post]
                       /\ shuf' = [kind |-> kind, n_iter |-> n_iter,
                                   ratemaps |-> ratemaps,
                                   posterior |-> SplitColumns(post, nbins_events),
                                   evt_shuff |-> <<>>,
                                   from_posterior |-> posterior,
                                   ordered |-> sorted.rows,
                                   cells |-> Pick(shuffle_good_cells(pf_ratemaps),
                                                  shuffle_sort_ind(good.rows))]
                       /\ shuffle_score' = [isSet |-> TRUE, rows |-> <<>>]
                       /\ pf_ratemaps' = IF good.shared /\ sorted.shared
                                         THEN ratemaps ELSE pf_ratemaps
          ELSE IF post_form # "list"
               THEN ShuffleRaised
               ELSE IF \E i \in 1..Len(posterior) : col_shuffle_raises(posterior[i])
               THEN ShuffleRaised
               ELSE \E rows \in [1..n_iter -> [1..Len(posterior) -> ScoreLevels]] :
                    \E out \in {[i \in 1..Len(posterior) |->
                                    {col_shuffle(posterior[i], sh) :
                                        sh \in Shifts(NColumns(posterior[i]))}]} :
                    \E evt_shuff \in {e \in [1..Len(posterior) -> UNION {out[i] : i \in 1..Len(posterior)}] :
                                        \A i \in 1..Len(posterior) : e[i] \in out[i]} :
                       /\ b_status' = "ok"
                       /\ shuf' = [kind |-> kind, n_iter |-> n_iter, ratemaps |-> <<>>,
                                   posterior |-> <<>>, evt_shuff |-> evt_shuff,
                                   from_posterior |-> posterior,
                                   ordered |-> <<>>, cells |-> <<>>]
                       /\ shuffle_score' = [isSet |-> TRUE, rows |-> rows]
                       /\ UNCHANGED <<dec, pf_ratemaps>>
    /\ UNCHANGED <<dvars, spikes, b_events, spkcount, nbins_events, posterior,
                   decodedPos, score, smoothed, spk_cells, p_val, post_form, assigned>>

\* entry i of a row after numpy broadcasting: a row of one entry is repeated
Broadcast(row, i) == IF Len(row) = 1 THEN row[1] ELSE row[i]

\* chance = np.where(shuff_score - score > 0, 1, 0).sum(axis=0) for event i
chance(rows, real, i) ==
    Cardinality({k \in 1..Len(rows) : Broadcast(rows[k], i) - Broadcast(real, i) > 0})

\* the length of a and of b after broadcasting
BroadcastLen(a, b) == IF Len(a) >= Len(b) THEN Len(a) ELSE Len(b)

\* the p_val_events property.  self.shuffle_score and self.score exist only after
\* decode_shuffle and decode_events; the subtraction raises ValueError when the two
\* numbers of events differ and neither is 1.  An empty shuffle_score (shape (0,)) has
\* n_iter = 0 and broadcasts against the tiled score of shape (0, n_events) only
\* for a single event, and then to a result without entries.
Bayes1d_p_val_events ==
    /\ CanCall
    /\ budget' = budget - 1
    /\ b_called' = "p_val_events"
    /\ IF ~shuffle_score.isSet \/ score = <<>>
       THEN /\ b_status' = "raised"
            /\ UNCHANGED p_val
       ELSE IF shuffle_score.rows = <<>>
       THEN IF Len(score) = 1
            THEN /\ b_status' = "ok"
                 /\ p_val' = <<>>
            ELSE /\ b_status' = "raised"
                 /\ UNCHANGED p_val
       ELSE IF /\ Len(shuffle_score.rows[1]) # Len(score)
               /\ Len(shuffle_score.rows[1]) # 1
               /\ Len(score) # 1
       THEN /\ b_status' = "raised"
            /\ UNCHANGED p_val
       ELSE /\ b_status' = "ok"
            /\ p_val' = [i \in 1..BroadcastLen(shuffle_score.rows[1], score) |->
                            RDiv(<<chance(shuffle_score.rows, score, i) + 1, 1>>,
                                 <<Len(shuffle_score.rows) + 1, 1>>)]
    /\ UNCHANGED <<dvars, pf_ratemaps, spikes, b_events, spkcount, nbins_events,
                   posterior, decodedPos, score, smoothed, spk_cells, dec, shuffle_score, shuf, post_form,
                   assigned>>

\* a decoder over a session, followed through MaxCalls operations
InitShuffle ==
    /\ DetectIdle
    /\ BayesIdle
    /\ pf_ratemaps \in ShuffleMaps
    /\ spikes \in ShuffleTrains
    /\ budget = MaxCalls

NextShuffle ==
    \/ set_events
    \/ Bayes1d_decode_events
    \/ Bayes1d_estimate_behavior
    \/ Bayes1d_decode_shuffle
    \/ Bayes1d_p_val_events

SpecShuffle == InitShuffle /\ [][NextShuffle]_vars

\* the events setter called again between two decoder operations
reassign_events ==
    /\ b_called \notin {"none", "events"}
    /\ CanCall
    /\ \E v \in FrameInputs \cup ArrayInputs : Assign(v) /\ v # assigned
    /\ UNCHANGED <<dvars, pf_ratemaps, spikes, spkcount, nbins_events,
                   posterior, decodedPos, score, smoothed, spk_cells, dec, budget, shvars,
                   post_form>>

\* one session followed through MaxCalls + 1 operations, the events re-assigned
\* at any point
InitStale ==
    /\ DetectIdle
    /\ BayesIdle
    /\ pf_ratemaps = << <<2, 1>>, <<0, 2>> >>
    /\ spikes \in {t \in ShuffleTrains : t[1] \subseteq {0} /\ t[2] = {}}
    /\ budget = MaxCalls + 1

NextStale ==
    \/ set_events
    \/ reassign_events
    \/ Bayes1d_decode_events
    \/ Bayes1d_decode_shuffle
    \/ Bayes1d_p_val_events

SpecStale == InitStale /\ [][NextStale]_vars

\* ================================================================ claims
IsThreshold == called \in {"Ripple", "Spindle"}

LowUsed == IF called = "Ripple" THEN args.lowthreshold ELSE lowthresholdFactor
HighUsed == IF called = "Ripple" THEN args.highthreshold ELSE highthresholdFactor
MergeDistanceUsed == IF called = "Ripple" THEN args.mergeDistance ELSE Spindle_mergeDistance
MinDurationUsed == IF called = "Ripple" THEN args.minDuration ELSE minSpindleDuration

\* a gap of g samples is at least the merge distance converted to samples
AtLeastMinGap(g) == g * 1000 >= MergeDistanceUsed * lfpSrate

\* C1. Merge invariant: after the merge pass of Ripple.detect and Spindle.detect,
\* every two adjacent runs of the second pass are at least min_gap samples apart
\* (start of the later minus end of the earlier), and so are every two adjacent
\* emitted events.
C1_MergeInvariant ==
    IsThreshold =>
        /\ \A k \in 1..(Len(secondPass) - 1) :
              AtLeastMinGap(secondPass[k + 1][1] - secondPass[k][2])
        /\ status = "ok" =>
              \A k \in 1..(Len(events) - 1) :
                  events[k + 1].start - events[k].end >= MergeDistanceUsed

\* a run where a merge happened, two merged runs remain and both are emitted
C1_Witness ==
    /\ called = "Ripple"
    /\ status = "ok"
    /\ Len(firstPass) > Len(secondPass)
    /\ Len(secondPass) >= 2
    /\ Len(events) >= 2

\* the largest max_duration the detect contract is configured with
LargestMaxDuration == CHOOSE m \in MaxDurations : \A x \in MaxDurations : x <= m
MaxDurationUsed == IF called = "Ripple" THEN args.maxDuration ELSE LargestMaxDuration

\* C2. Duration bound: every event emitted by Ripple.detect or Spindle.detect has
\* min_duration <= end - start <= max_duration.
C2_DurationBound ==
    (IsThreshold /\ status = "ok") =>
        \A k \in 1..Len(events) :
            /\ MinDurationUsed <= events[k].end - events[k].start
            /\ events[k].end - events[k].start <= MaxDurationUsed

\* the samples of a run: after the rising crossing, up to the falling crossing
RunSamples(r) == (r[1] + 1)..r[2]
RunMaximum(r) ==
    LET S == {zscsignal[k] : k \in RunSamples(r)}
    IN CHOOSE m \in S : \A v \in S : v <= m
InPass(r, pass) == \E k \in 1..Len(pass) : pass[k] = r

\* C3. Peak filter: a merged run survives pass 3 if and only if the maximum of the
\* signal over the samples of the run exceeds high_threshold.
C3_PeakFilter ==
    (IsThreshold /\ stage \in {"peak", "done"}) =>
        \A k \in 1..Len(secondPass) :
            InPass(secondPass[k], thirdPass) <=> RunMaximum(secondPass[k]) > HighUsed

\* passes 1-4 left no run
NoRunLeft == stage \in {"trim", "peak"} \/ (stage = "done" /\ events = <<>>)

\* C4. Empty result is not an error: when passes 1-4 leave no run, detect returns
\* an empty event table and does not raise.
C4_EmptyIsNotError ==
    (IsThreshold /\ NoRunLeft) => (status = "ok" /\ events = <<>>)

\* the samples whose time lies in the artifact / noisy mask: the frames the
\* artifact object lists (Ripple), the samples at a time t with start <= t < end of
\* a row of the .dead file (Spindle)
MaskedSamples ==
    IF called = "Ripple"
    THEN IF args.artifact.time THEN args.artifact.frames ELSE {}
    ELSE IF args.deadfile.isfile
         THEN {i \in DOMAIN eeg : \E k \in 1..Len(args.deadfile.epochs) :
                  /\ args.deadfile.epochs[k][1] * lfpSrate <= i * 1000
                  /\ i * 1000 < args.deadfile.epochs[k][2] * lfpSrate}
         ELSE {}

\* C5. Artifact zeroing: every sample covered by the artifact / noisy mask is zero
\* in the z-scored signal before binarization, so for a low threshold >= 0 it is
\* not above threshold and lies in no pass-1 run.
C5_ArtifactZeroed ==
    IsThreshold =>
        \A i \in MaskedSamples :
            /\ zscsignal[i] = 0
            /\ LowUsed >= 0 =>
                  /\ ~(zscsignal[i] > LowUsed)
                  /\ \A k \in 1..Len(firstPass) : i \notin RunSamples(firstPass[k])

\* C6. Event table invariant: in every event table a detect pass produces, each
\* event has start < end, the events are in increasing start order and no two
\* overlap (the end of one is at most the start of the next).
C6_EventTable ==
    status = "ok" =>
        /\ \A k \in 1..Len(events) : events[k].start < events[k].end
        /\ \A k \in 1..(Len(events) - 1) :
              /\ events[k].start < events[k + 1].start
              /\ events[k].end <= events[k + 1].start

\* a slow-wave table of two consecutive events that share a boundary
C6_Witness ==
    /\ called = "Hswa"
    /\ status = "ok"
    /\ Len(events) >= 2
    /\ events[1].end = events[2].start

\* eeg is zero except on a..b, where it exceeds high
SingleBlock(a, b, high) ==
    \A i \in DOMAIN eeg : IF i \in a..b THEN eeg[i] > high ELSE eeg[i] = 0

Distance(x, y) == IF x >= y THEN x - y ELSE y - x

\* C7. Single block: for a signal that is zero except one block strictly inside it
\* that exceeds high_threshold and whose length lies in [min_duration, max_duration],
\* Ripple.detect emits exactly one event, whose start and end are the times of the
\* block's first and last sample to within one sample.
C7_SingleBlock ==
    (called = "Ripple" /\ ~args.artifact.time /\ args.lowthreshold >= 0) =>
        \A a \in DOMAIN eeg, b \in DOMAIN eeg :
            (/\ 1 <= a /\ a <= b /\ b <= NSamples(eeg) - 2
             /\ SingleBlock(a, b, args.highthreshold)
             /\ (b - a + 1) * 1000 >= args.minDuration * lfpSrate
             /\ (b - a + 1) * 1000 <= args.maxDuration * lfpSrate)
            => /\ status = "ok"
               /\ Len(events) = 1
               /\ Distance(events[1].start, ToTime(a)) <= ToTime(1)
               /\ Distance(events[1].end, ToTime(b)) <= ToTime(1)

\* pass-1 runs k and k+1 are closer than min_gap samples
TooClose(k) == ~AtLeastMinGap(firstPass[k + 1][1] - firstPass[k][2])

\* C8. Merging of close runs: two consecutive pass-1 runs closer than min_gap
\* samples end up in one second-pass run that spans from the start of the first to
\* the end of the second; a chain of runs each closer than min_gap to the next
\* becomes the one run from the start of its first to the end of its last run.
C8_MergeCloseRuns ==
    IsThreshold =>
        \A i \in 1..Len(firstPass), j \in 1..Len(firstPass) :
            (i <= j /\ \A k \in i..(j - 1) : TooClose(k)) =>
                /\ \E m \in 1..Len(secondPass) :
                      /\ secondPass[m][1] <= firstPass[i][1]
                      /\ firstPass[j][2] <= secondPass[m][2]
                /\ ((i = 1 \/ ~TooClose(i - 1)) /\ (j = Len(firstPass) \/ ~TooClose(j)))
                      => InPass(<<firstPass[i][1], firstPass[j][2]>>, secondPass)

\* three pass-1 runs merged into one, which is emitted
C8_Witness ==
    /\ IsThreshold
    /\ status = "ok"
    /\ Len(firstPass) >= 3
    /\ Len(secondPass) = 1
    /\ Len(events) = 1

\* --------------------------------------------------------------- decoder
Decoded == b_status = "ok" /\ b_called \in {"decode_events", "estimate_behavior", "decode_events2d"}

\* the time bins (columns) of the last _decoder call
DecBins == 1..(IF dec.spkcount = <<>> THEN 0 ELSE Len(dec.spkcount[1]))
DecPositions == 1..Len(dec.posterior)

\* the joint likelihood of time bin t is zero at every position: at every position
\* some cell with rate zero there has fired in the bin
Degenerate(t) ==
    \A p \in DecPositions :
        \E c \in 1..Len(dec.spkcount) : dec.ratemaps[c][p] = 0 /\ dec.spkcount[c][t] > 0

IsProbability(a) == a[2] > 0 /\ 0 <= a[1] /\ a[1] <= a[2]

\* C9: every column of the matrix returned by _decoder whose joint likelihood is
\* non-zero at some position sums to exactly 1 over the positions, and each of its
\* entries lies in [0, 1].
C9_PosteriorNormalized ==
    Decoded =>
        \A t \in DecBins :
            ~Degenerate(t) =>
                /\ \A p \in DecPositions : IsProbability(dec.posterior[p][t])
                /\ REq(RSum([p \in DecPositions |-> dec.posterior[p][t]]), <<1, 1>>)

\* an event was decoded in which two cells fired in one bin and the posterior of
\* that bin is spread over both positions
C9_Witness ==
    /\ Decoded
    /\ b_called = "decode_events"
    /\ \E t \in DecBins :
          /\ ~Degenerate(t)
          /\ \A c \in 1..Len(dec.spkcount) : dec.spkcount[c][t] > 0
          /\ Len(dec.spkcount) = 2
          /\ \A p \in DecPositions : dec.posterior[p][t][1] > 0
          /\ ~REq(dec.posterior[1][t], dec.posterior[2][t])

\* the decoded trajectory, bin by bin in the order of the columns of _decoder
Trajectory ==
    IF b_called = "estimate_behavior" THEN decodedPos
    ELSE IF b_called = "decode_events" THEN Concat(decodedPos)
    ELSE LET xs == Concat([i \in 1..Len(decodedPos) |-> decodedPos[i][1]])
             ys == Concat([i \in 1..Len(decodedPos) |-> decodedPos[i][2]])
         IN [t \in 1..Len(xs) |-> <<xs[t], ys[t]>>]

\* the ordinary decoded positions: the bin centres, or the grid centres
OrdinaryPositions ==
    IF b_called = "decode_events2d"
    THEN {<<gridcenter[1][p], gridcenter[2][p]>> : p \in 1..Len(gridcenter[1])}
    ELSE {bincntr(p - 1) : p \in 1..Len(pf_bin)}

\* C10: a time bin whose joint likelihood is zero at every position gets no ordinary
\* decoded position in the trajectory.
C10_DegenerateSurfaced ==
    Decoded =>
        \A t \in DecBins : Degenerate(t) => Trajectory[t] \notin OrdinaryPositions

\* the bin count of an event computed from its bounds: (end - start) / binsize
BinCount(row, width) == (row.end - row.start) \div width

\* the bin width the event decode that ran was called with
WidthUsed == IF b_called = "decode_events2d" THEN binsize2d ELSE binsize

\* C11: after an event decode the i-th per-event posterior has as many columns as
\* event i has bins, (end - start) / binsize, and the column counts of all events
\* add up to the number of columns of the concatenated posterior.
C11_SplitConsistency ==
    (b_status = "ok" /\ b_called \in {"decode_events", "decode_events2d"}) =>
        /\ Len(posterior) = Len(b_events.rows)
        /\ \A i \in 1..Len(posterior) :
              NColumns(posterior[i]) = BinCount(b_events.rows[i], WidthUsed)
        /\ RSum([i \in 1..Len(posterior) |-> <<NColumns(posterior[i]), 1>>])[1]
              = RSum([i \in 1..Len(b_events.rows) |->
                         <<BinCount(b_events.rows[i], WidthUsed), 1>>])[1]

\* --------------------------------------------------------------- shuffles
\* the iterations of the last decode_shuffle whose score for event i is strictly
\* greater than the real score of event i
Exceeding(i) == {k \in 1..shuf.n_iter : shuffle_score.rows[k][i] > score[i]}

\* C12: p_val_events gives every event i the value (1 + the number of shuffle
\* iterations whose score for i is strictly greater than the real score of i) /
\* (1 + n_iterations), a value between 1 / (n_iterations + 1) and 1.
C12_PValue ==
    (b_called = "p_val_events" /\ b_status = "ok") =>
        /\ Len(p_val) = Len(score)
        /\ Len(shuffle_score.rows) = shuf.n_iter
        /\ \A i \in 1..Len(score) :
              /\ REq(p_val[i], <<1 + Cardinality(Exceeding(i)), 1 + shuf.n_iter>>)
              /\ ~RLess(p_val[i], <<1, shuf.n_iter + 1>>)
              /\ ~RLess(<<1, 1>>, p_val[i])

ColumnShuffled == b_called = "decode_shuffle" /\ b_status = "ok" /\ shuf.kind = "column"

\* column t of a matrix given as rows
Column(mat, t) == [p \in 1..Len(mat) |-> mat[p][t]]

\* b is a, rotated cyclically by some number of places
IsRotation(a, b) ==
    /\ Len(a) = Len(b)
    /\ \E k \in 0..(Len(a) - 1) :
          \A j \in 1..Len(a) : b[j] = a[((j - 1 + k) % Len(a)) + 1]

\* C13: every matrix the column shuffle returns has the shape of the posterior it
\* was made from, and each of its columns is a cyclic rotation of the column with
\* the same index of that posterior, so the column keeps its values and its sum.
C13_ColumnShuffle ==
    ColumnShuffled =>
        /\ Len(shuf.evt_shuff) = Len(posterior)
        /\ \A i \in 1..Len(posterior) :
              /\ Len(shuf.evt_shuff[i]) = Len(posterior[i])
              /\ NColumns(shuf.evt_shuff[i]) = NColumns(posterior[i])
              /\ \A t \in 1..NColumns(posterior[i]) :
                    /\ IsRotation(Column(posterior[i], t), Column(shuf.evt_shuff[i], t))
                    /\ REq(RSum(Column(shuf.evt_shuff[i], t)), RSum(Column(posterior[i], t)))

\* a posterior of three columns that are not all alike was shuffled: one column
\* came back as it was and another one rotated
C13_Witness ==
    /\ ColumnShuffled
    /\ NColumns(posterior[1]) = 3
    /\ \E t, u \in 1..3 :
          /\ Column(posterior[1], t) # Column(posterior[1], u)
          /\ Column(shuf.evt_shuff[1], t) = Column(posterior[1], t)
          /\ Column(shuf.evt_shuff[1], u) # Column(posterior[1], u)

\* C14: a decode_shuffle of either kind with n_iterations >= 1 leaves a shuffle
\* distribution of n_iterations rows with one score per event; the cell-identity
\* shuffle gets there by decoding with permuted rate-map rows and splitting the
\* result per event.
C14_CellidNullDistribution ==
    (b_called = "decode_shuffle" /\ b_status = "ok") =>
        /\ shuffle_score.isSet
        /\ Len(shuffle_score.rows) = shuf.n_iter
        /\ \A k \in 1..Len(shuffle_score.rows) :
              Len(shuffle_score.rows[k]) = Len(b_events.rows)
        /\ shuf.kind = "cellid" =>
              /\ Len(shuf.posterior) = Len(b_events.rows)
              /\ \E perm \in RowOrders(Len(dec.ratemaps)) :
                    shuf.ratemaps = Pick(dec.ratemaps, perm)

\* the cells whose peak rate is at least 1 Hz
AtLeastOneHz == {c \in 1..Len(pf_ratemaps) : \E p \in 1..Len(pf_ratemaps[c]) : pf_ratemaps[c][p] >= 1}

\* C15: the likelihood of an event decode is computed from exactly the cells whose
\* peak rate is at least 1 Hz: their rate-map rows and the spike counts of the same
\* cells, and of no others.
C15_LowRateExclusion ==
    (b_called = "decode_events" /\ b_status = "ok") =>
        /\ Len(dec.ratemaps) = Cardinality(AtLeastOneHz)
        /\ Len(dec.spkcount) = Cardinality(AtLeastOneHz)
        /\ \A c \in AtLeastOneHz :
              \E r \in 1..Len(dec.ratemaps) : dec.ratemaps[r] = pf_ratemaps[c]

\* C16: no decoder operation changes the rate maps held by the place-field object
\* or the spike trains of the cells.
C16_InputsNotMutated == [][pf_ratemaps' = pf_ratemaps /\ spikes' = spikes]_vars

\* a cell-identity shuffle ran as the third operation on a decoder, after an event
\* decode, and the rows of its private copy ended in another order than the rows
\* held by the place-field object
C16_Witness ==
    /\ b_called = "decode_shuffle"
    /\ b_status = "ok"
    /\ shuf.kind = "cellid"
    /\ post_form = "list"
    /\ budget = MaxCalls - 3
    /\ Len(shuf.ratemaps) = 2
    /\ shuf.ratemaps # pf_ratemaps

\* a step that assigns to .events: the steps before the first decoder operation
AssignsEvents == b_called = "none" /\ b_called' \in {"none", "events"}

LacksStartOrEnd(v) == v.type = "DataFrame" /\ ~({"start", "end"} \subseteq v.columns)

\* C17: assigning a table without a start or an end column raises and leaves the
\* events that were assigned before as they are; assigning an N x 2 array is
\* accepted and gives a table whose start is column 0 and whose end is column 1.
C17_EventsConfigError ==
    [][AssignsEvents =>
          /\ LacksStartOrEnd(assigned') =>
                (b_status' = "raised" /\ b_events' = b_events)
          /\ assigned'.type = "ndarray" =>
                /\ b_status' # "raised"
                /\ ~b_events'.isNone
                /\ Len(b_events'.rows) = Len(assigned'.data)
                /\ \A i \in 1..Len(assigned'.data) :
                      /\ b_events'.rows[i].start = assigned'.data[i][1]
                      /\ b_events'.rows[i].end = assigned'.data[i][2]]_vars

\* a table without an end column was refused after another table had been assigned
C17_Witness ==
    /\ b_called = "events"
    /\ b_status = "raised"
    /\ LacksStartOrEnd(assigned)
    /\ ~b_events.isNone
    /\ Len(b_events.rows) = 2

\* C18: a decoding that returned never used a spike-count matrix whose number of
\* rows (cells) differs from the number of rows of the rate maps: a mismatch in
\* either direction raises, and no posterior comes from a subset of the rows.
C18_CellCountMismatchRejected ==
    Decoded => Len(dec.spkcount) = Len(dec.ratemaps)

\* the interval [start, end] of an event lies within one row of the nrem ranges
WithinOneRange(e, ranges) ==
    \E k \in 1..Len(ranges) : ranges[k][1] <= e.start /\ e.end <= ranges[k][2]

\* C19: every spindle that Spindle.detect emits lies, from its start to its end,
\* within one nrem range; an event with any part outside nrem is not emitted.
C19_SpindleStateRestriction ==
    (called = "Spindle" /\ status = "ok") =>
        \A k \in 1..Len(events) : WithinOneRange(events[k], args.nrem)

\* C20: the detection-parameter record saved with the events of a run equals the
\* values the run used: band, thresholds, duration and merge bounds for Ripple,
\* the band for Spindle, the band and the channel for Hswa.
C20_ParameterRecordFidelity ==
    /\ (called = "Ripple" /\ status = "ok") =>
          /\ params.lowFreq = args.lowFreq
          /\ params.highFreq = args.highFreq
          /\ params.lowThres = args.lowthreshold
          /\ params.highThresh = args.highthreshold
          /\ params.minDuration = args.minDuration
          /\ params.maxDuration = args.maxDuration
          /\ params.mergeDistance = args.mergeDistance
    /\ (called = "Spindle" /\ status = "ok") =>
          /\ params.lowFreq = args.lowFreq
          /\ params.highFreq = args.highFreq
    /\ (called = "Hswa" /\ status = "ok") =>
          /\ params.freq_band = args.freq_band
          /\ params.chan = args.chan

\* the table a call of detect leaves on a detector that never ran before, as a
\* function of the detector, the signal and the arguments (a) of the call
FreshTable(detector, sig, a) ==
    IF detector = "Ripple"
    THEN LET frames == IF a.artifact.time THEN a.artifact.frames ELSE {}
             p == Passes("Ripple", sig, frames, a.lowthreshold, a.highthreshold,
                         a.mergeDistance)
             kept == SelectSeq(p.third, LAMBDA r : /\ RippleLongEnough(r, a.minDuration)
                                                   /\ RippleShortEnough(r, a.maxDuration))
         IN [k \in 1..Len(kept) |-> RippleEvent(p.zsc, kept[k])]
    ELSE IF detector = "Spindle"
    THEN LET frames == IF a.deadfile.isfile THEN EpochFrames(a.deadfile.epochs) ELSE {}
             p == Passes("Spindle", sig, frames, lowthresholdFactor, highthresholdFactor,
                         Spindle_mergeDistance)
             fourthPass == SelectSeq(p.third, LAMBDA r : ~SpindleShort(r))
             fifthPass == SelectSeq(fourthPass,
                                    LAMBDA r : ~OutsideNrem(r, EpochFrames(a.nrem)))
         IN [k \in 1..Len(fifthPass) |-> SpindleEvent(p.zsc, fifthPass[k])]
    ELSE HswaPairs(sig).rows

\* a step in which detect ran and returned
DetectReturned == runs' < runs /\ status' = "ok"

AboveLow(i) == zscsignal[i] > LowUsed
\* the signal rises above the threshold after sample i / falls below it after j
RisingEdge(i) == i \in DOMAIN zscsignal /\ (i + 1) \in DOMAIN zscsignal
                    /\ ~AboveLow(i) /\ AboveLow(i + 1)
FallingEdge(j) == j \in DOMAIN zscsignal /\ (j + 1) \in DOMAIN zscsignal
                     /\ AboveLow(j) /\ ~AboveLow(j + 1)
\* the complete runs: a rising edge and the first falling edge after it
CompleteRuns ==
    {<<i, j>> \in (DOMAIN zscsignal) \X (DOMAIN zscsignal) :
        /\ RisingEdge(i) /\ FallingEdge(j) /\ i < j
        /\ \A m \in (i + 1)..(j - 1) : ~FallingEdge(m)}

\* C22: when the signal has at least one complete run, pass 1 does not raise and
\* its list holds exactly the complete runs, so neither a run above the threshold
\* at the first sample nor one still above it at the last sample is in it; the
\* k-th start is paired with the k-th stop and start_k < stop_k < start_(k+1).
C22_BoundaryRunsDiscarded ==
    (IsThreshold /\ CompleteRuns # {}) =>
        /\ stage # "trim"
        /\ {firstPass[k] : k \in 1..Len(firstPass)} = CompleteRuns
        /\ Len(firstPass) = Cardinality(CompleteRuns)
        /\ \A k \in 1..Len(firstPass) : firstPass[k][1] < firstPass[k][2]
        /\ \A k \in 1..(Len(firstPass) - 1) : firstPass[k][2] < firstPass[k + 1][1]

\* a signal above the threshold at its first and at its last sample, with a
\* complete run between them
C22_Witness ==
    /\ IsThreshold
    /\ AboveLow(0)
    /\ AboveLow(NSamples(zscsignal) - 1)
    /\ CompleteRuns # {}
    /\ Len(firstPass) = Cardinality(CompleteRuns)

\* the groupings that list the same shanks in another order and the channels of
\* a shank in another order
Reorderings(grp) ==
    {g \in ShankLayouts :
        \E f \in RowOrders(nShanks) :
            \A sh \in 1..nShanks : ChannelSet(g[f[sh]]) = ChannelSet(grp[sh])}

\* the largest mean envelope among the channels of a shank
ShankMax(shank) ==
    CHOOSE m \in {rippleamp_chan[c] : c \in ChannelSet(shank)} :
        \A c \in ChannelSet(shank) : rippleamp_chan[c] <= m

\* one channel of every non-empty shank, of the largest mean envelope of its
\* shank, the channels listed by ascending envelope
OnePerShank ==
    LET best == bestripplechans.channels
    IN /\ \A sh \in 1..nShanks :
             Cardinality({k \in 1..Len(best) : best[k] \in ChannelSet(goodchangrp[sh])})
                = (IF goodchangrp[sh] = <<>> THEN 0 ELSE 1)
       /\ \A k \in 1..Len(best) :
             \E sh \in 1..nShanks :
                /\ best[k] \in ChannelSet(goodchangrp[sh])
                /\ rippleamp_chan[best[k]] = ShankMax(goodchangrp[sh])
                /\ bestripplechans.metricAmp[k] = ShankMax(goodchangrp[sh])
       /\ \A k \in 1..(Len(best) - 1) :
             bestripplechans.metricAmp[k] <= bestripplechans.metricAmp[k + 1]

\* C23: Ripple.channels returns one channel per non-empty shank, of the largest
\* mean envelope among the good channels of its shank, the shanks sorted by that
\* envelope, and the ranking is the same for every order in which the shanks and
\* the channels of a shank are listed, ties included.
C23_BestChannelRanking ==
    bestripplechans.isSet =>
        /\ OnePerShank
        /\ \A g \in Reorderings(goodchangrp) :
              \A r \in Rankings(g, rippleamp_chan) :
                 r.channels = bestripplechans.channels

\* the peaks and the troughs of the delta signal
Peaks == {find_peaks(eeg)[k] : k \in 1..Len(find_peaks(eeg))}
Troughs == {find_peaks(Negated(eeg))[k] : k \in 1..Len(find_peaks(Negated(eeg)))}
\* a trough, a peak after it and the next trough
Triples ==
    {<<a, u, b>> \in Troughs \X Peaks \X Troughs :
        /\ a < u /\ u < b
        /\ \A c \in Troughs : ~(a < c /\ c < b)}
\* the event of a triple, its times read on the time axis t of the detector
TripleEvent(tr) ==
    [start |-> Linspace(tr[1], NSamples(eeg)),
     end |-> Linspace(tr[3], NSamples(eeg)),
     peaktime |-> Linspace(tr[2], NSamples(eeg)),
     peakamp |-> eeg[tr[2]],
     endamp |-> eeg[tr[3]]]

BoxCentred(evt, p, t) ==
    RSum([j \in 1..Len(evt) |-> IF j \in (p - 1)..(p + 1) THEN evt[j][t] ELSE <<0, 1>>])

\* C25: the matrix the lines are sampled from has as many position rows as the
\* posterior of the event, and its value at position row p and time bin t is the
\* box filter centred on p of column t.
C25_ReplayScoreSmoothing ==
    (b_called = "decode_events" /\ b_status = "ok") =>
        \A i \in 1..Len(posterior) :
            /\ Len(smoothed[i]) = Len(posterior[i])
            /\ \A p \in 1..Len(posterior[i]) : \A t \in 1..NColumns(posterior[i]) :
                  smoothed[i][p][t] = BoxCentred(posterior[i], p, t)

\* the rows of b are the rows of a in some order
IsRowPermutation(a, b) ==
    /\ Len(a) = Len(b)
    /\ \E f \in RowOrders(Len(a)) : \A k \in 1..Len(a) : b[k] = a[f[k]]

\* C26: at a cellid shuffle, the rate maps filtered and ordered by the shuffle
\* list the same cells in the same order as the rows of the spike counts stored
\* by decode_events, both have the same number of rows, and the rate maps an
\* iteration decodes with are a row permutation of that ordered array.
C26_ConsistentCellOrdering ==
    (b_called = "decode_shuffle" /\ b_status = "ok" /\ shuf.kind = "cellid") =>
        /\ shuf.cells = spk_cells
        /\ Len(hstack(spkcount)) = Len(shuf.ordered)
        /\ \A k \in 1..Len(shuf.cells) : shuf.ordered[k] = pf_ratemaps[shuf.cells[k]]
        /\ IsRowPermutation(shuf.ordered, shuf.ratemaps)

\* a cellid shuffle on rate maps whose two cells the ordering swaps
C26_Witness ==
    /\ b_called = "decode_shuffle"
    /\ b_status = "ok"
    /\ shuf.kind = "cellid"
    /\ spk_cells = <<2, 1>>
    /\ shuf.ratemaps # shuf.ordered

\* p_val_events returned an array of p-values
PValueReturned == b_called = "p_val_events" /\ b_status = "ok"

\* C27: whenever p_val_events returns, a decode_shuffle ran before it and the
\* shuffle scores it uses were produced from the posterior that the current real
\* scores were computed from; p-values never mix the scores of newly decoded
\* events with the shuffle distribution of events decoded earlier.
C27_NoStaleNullDistribution ==
    PValueReturned =>
        /\ shuffle_score.isSet
        /\ smoothed = [i \in 1..Len(shuf.from_posterior) |-> smooth(shuf.from_posterior[i])]

\* the number of whole or begun bins of event i less the last one: the bins
\* between the edges start, start + binsize, ... that lie below end
EventBins(i) ==
    ((b_events.rows[i].end - b_events.rows[i].start + binsize - 1) \div binsize) - 1
\* the number of bins of the events before event i
BinsBefore(i) == RSum([m \in 1..(i - 1) |-> <<EventBins(m), 1>>])[1]
\* bin j of event i, and whether its upper edge is the last edge of all
BinLow(i, j) == b_events.rows[i].start + (j - 1) * binsize
BinHigh(i, j) == b_events.rows[i].start + j * binsize
LastBinOfAll(i, j) == i = Len(b_events.rows) /\ j = EventBins(i)
\* the spikes of a cell that fall into bin j of event i
SpikesInBin(cell, i, j) ==
    {t \in spikes[cell] : /\ BinLow(i, j) <= t
                          /\ IF LastBinOfAll(i, j) THEN t <= BinHigh(i, j)
                                                    ELSE t < BinHigh(i, j)}

\* C28: for time-ordered events that do not overlap, the retained columns of the
\* spike counts are, in the order of the events, the bins of the events and
\* nothing else: column BinsBefore(i) + j counts the spikes of its cell in bin j
\* of event i, which lies inside [start, end) of that event, so the columns of
\* the gaps between two events are the deleted ones and no spike outside every
\* event is counted.
C28_GapColumnsDeleted ==
    (b_called = "decode_events" /\ b_status = "ok") =>
        /\ \A c \in 1..Len(dec.spkcount) :
              Len(dec.spkcount[c]) = BinsBefore(Len(b_events.rows) + 1)
        /\ \A i \in 1..Len(b_events.rows) : \A j \in 1..EventBins(i) :
              /\ b_events.rows[i].start <= BinLow(i, j)
              /\ BinHigh(i, j) < b_events.rows[i].end
              /\ \A c \in 1..Len(dec.spkcount) :
                    dec.spkcount[c][BinsBefore(i) + j]
                       = Cardinality(SpikesInBin(spk_cells[c], i, j))

\* two events with a gap between them, a spike in the gap and outside both
\* events, and a spike inside the first event
C28_Witness ==
    /\ b_called = "decode_events"
    /\ b_status = "ok"
    /\ Len(b_events.rows) = 2
    /\ b_events.rows[1].end < b_events.rows[2].start
    /\ \E c \in 1..Len(spk_cells) :
          /\ b_events.rows[1].end \in spikes[spk_cells[c]]
          /\ dec.spkcount[c][1] > 0

\* run r lies inside run q
Within(r, q) == q[1] <= r[1] /\ r[2] <= q[2]

\* C29: the merge pass conserves coverage: every first-pass run lies inside exactly
\* one second-pass run; every second-pass run starts at a first-pass start and ends
\* at a first-pass end at or after it; the second-pass runs are in increasing
\* order and are at most as many as the first-pass runs, as many exactly when no
\* gap between two consecutive first-pass runs is below min_gap.
C29_MergeConservesCoverage ==
    (IsThreshold /\ firstPass # <<>>) =>
        /\ \A k \in 1..Len(firstPass) :
              Cardinality({m \in 1..Len(secondPass) : Within(firstPass[k], secondPass[m])}) = 1
        /\ \A m \in 1..Len(secondPass) :
              \E i \in 1..Len(firstPass), j \in 1..Len(firstPass) :
                  /\ i <= j
                  /\ secondPass[m][1] = firstPass[i][1]
                  /\ secondPass[m][2] = firstPass[j][2]
        /\ \A m \in 1..(Len(secondPass) - 1) :
              /\ secondPass[m][1] < secondPass[m + 1][1]
              /\ secondPass[m][2] < secondPass[m + 1][1]
        /\ Len(secondPass) <= Len(firstPass)
        /\ Len(secondPass) = Len(firstPass)
              <=> \A k \in 1..(Len(firstPass) - 1) : ~TooClose(k)

\* three first-pass runs of which two are merged and one is kept apart
C29_Witness ==
    /\ IsThreshold
    /\ Len(firstPass) = 3
    /\ Len(secondPass) = 2
    /\ \E k \in 1..2 : TooClose(k)
    /\ \E k \in 1..2 : ~TooClose(k)

\* sample i lies in [start, end] of an emitted event (times in ms)
Covers(event, i) ==
    event.start * lfpSrate <= i * 1000 /\ i * 1000 <= event.end * lfpSrate

\* C30: no emitted event covers an artifact sample: for every event emitted by
\* Ripple.detect or Spindle.detect no sample index in [start, end] belongs to the
\* artifact / noisy mask, also when the merge pass combined runs that lie on both
\* sides of a masked interval shorter than min_gap.
C30_NoEventCoversArtifact ==
    (IsThreshold /\ status = "ok") =>
        \A k \in 1..Len(events) : \A i \in MaskedSamples : ~Covers(events[k], i)

====
